---- MODULE Spec2Model ----
(***************************************************************************)
(* Model of minimalirc (package minimalirc, minimalirc.go) and of the      *)
(* consumer loop of contrivedExample.go.                                   *)
(*                                                                         *)
(* A string is a sequence of one-character strings, so that prefixes,      *)
(* splitting, case folding and format verbs are computed, not assumed.     *)
(* An error value is a sequence of tags, outermost wrapper first; nil is   *)
(* the empty sequence.                                                     *)
(***************************************************************************)
EXTENDS Integers, Sequences, FiniteSets, TLC

(***************************************************************************)
(* Bounds of the model.                                                    *)
(***************************************************************************)
\* lines the server sends over the life of one connection
MaxLines == 2
\* caller send operations issued after the dial
MaxSends == 1

(***************************************************************************)
(* Strings.                                                                *)
(***************************************************************************)
Nil == <<>>
SP == " "
PCT == "%"

Upper == <<"A","B","C","D","E","F","G","H","I","J","K","L","M",
           "N","O","P","Q","R","S","T","U","V","W","X","Y","Z">>
Lower == <<"a","b","c","d","e","f","g","h","i","j","k","l","m",
           "n","o","p","q","r","s","t","u","v","w","x","y","z">>
Digits == {"0","1","2","3","4","5","6","7","8","9"}

\* unicode.ToLower on one rune of the alphabet used here
LowerOf(c) ==
    IF \E k \in 1..26 : Upper[k] = c
    THEN Lower[CHOOSE k \in 1..26 : Upper[k] = c]
    ELSE c

\* strings.ToLower
ToLower(s) == [k \in 1..Len(s) |-> LowerOf(s[k])]

\* strings.HasPrefix
HasPrefix(s, p) ==
    /\ Len(s) >= Len(p)
    /\ \A k \in 1..Len(p) : s[k] = p[k]

\* index of the first sep in s at or after position k, 0 when there is none
RECURSIVE IndexFrom(_, _, _)
IndexFrom(s, sep, k) ==
    IF k > Len(s) THEN 0
    ELSE IF s[k] = sep THEN k
    ELSE IndexFrom(s, sep, k + 1)

\* strings.SplitN(s, sep, n) for a one-character sep and n >= 1: at most n
\* pieces, the last one holding the unsplit remainder
RECURSIVE SplitN(_, _, _)
SplitN(s, sep, n) ==
    LET k == IndexFrom(s, sep, 1) IN
    IF n <= 1 \/ k = 0 THEN <<s>>
    ELSE <<SubSeq(s, 1, k - 1)>> \o SplitN(SubSeq(s, k + 1, Len(s)), sep, n - 1)

\* decimal rendering of a non-negative integer (%v of an int64)
RECURSIVE Itoa(_)
Itoa(n) ==
    LET d == <<"0","1","2","3","4","5","6","7","8","9">>[(n % 10) + 1] IN
    IF n < 10 THEN <<d>> ELSE Itoa(n \div 10) \o <<d>>

(***************************************************************************)
(* fmt.Sprintf / fmt.Fprintf over string operands.  After a '%' the flags  *)
(* "#0+- " and a decimal width are skipped; then "%%" prints '%', a verb   *)
(* with no operand left prints "%!<verb>(MISSING)", a '%' at the end of    *)
(* the format prints "%!(NOVERB)", and %v or %s prints the next operand.   *)
(* Operands left over are reported as "%!(EXTRA string=...)".              *)
(***************************************************************************)
FmtFlags == {"#", "0", "+", "-", " "}
NoVerbString == <<"%","!","(","N","O","V","E","R","B",")">>
MissingString == <<"(","M","I","S","S","I","N","G",")">>
ExtraString == <<"%","!","(","E","X","T","R","A"," ">>
TypeString == <<"s","t","r","i","n","g","=">>

RECURSIVE SkipSet(_, _, _)
SkipSet(f, k, set) ==
    IF k <= Len(f) /\ f[k] \in set THEN SkipSet(f, k + 1, set) ELSE k

RECURSIVE ExtraArgs(_, _)
ExtraArgs(a, n) ==
    IF n > Len(a) THEN <<")">>
    ELSE TypeString \o a[n] \o
         (IF n < Len(a) THEN <<",", " ">> ELSE <<>>) \o ExtraArgs(a, n + 1)

\* one step of the scan at position k with operand n next, j being the
\* position of the verb when f[k] is a '%': the text the step prints, and
\* the position and operand the scan goes on with
FmtStep(f, k, a, n, j) ==
    IF f[k] # PCT THEN [out |-> <<f[k]>>, k |-> k + 1, n |-> n]
    ELSE IF j > Len(f) THEN [out |-> NoVerbString, k |-> j, n |-> n]
    ELSE IF f[j] = PCT THEN [out |-> <<PCT>>, k |-> j + 1, n |-> n]
    ELSE IF n > Len(a)
         THEN [out |-> <<PCT, "!", f[j]>> \o MissingString, k |-> j + 1, n |-> n]
    ELSE IF f[j] \in {"v", "s"} THEN [out |-> a[n], k |-> j + 1, n |-> n + 1]
    ELSE [out |-> <<PCT, "!", f[j], "(">> \o TypeString \o a[n] \o <<")">>,
          k |-> j + 1, n |-> n + 1]

RECURSIVE DoPrintf(_, _, _, _)
\* the scan goes on after the step st
FmtNext(f, a, st) == st.out \o DoPrintf(f, st.k, a, st.n)

DoPrintf(f, k, a, n) ==
    IF k > Len(f)
    THEN IF n <= Len(a) THEN ExtraString \o ExtraArgs(a, n) ELSE <<>>
    ELSE FmtNext(f, a, FmtStep(f, k, a, n,
                               SkipSet(f, SkipSet(f, k + 1, FmtFlags), Digits)))

Sprintf(f, a) == DoPrintf(f, 1, a, 1)

(***************************************************************************)
(* String constants of minimalirc.go.                                      *)
(***************************************************************************)
fmtNickColon == <<"N","I","C","K"," ",":","%","v">>
fmtUser == <<"U","S","E","R"," ","%","v"," ","x"," ","x"," ",":","%","v">>
strNick == <<"N","I","C","K">>
fmtRandNick == <<"%","v","-","%","v">>
fmtAuth == <<"P","R","I","V","M","S","G"," ","N","i","c","k","S","e","r","v"," ",
             ":","i","d","e","n","t","i","f","y"," ","%","v"," ","%","v">>
fmtJoin == <<"J","O","I","N"," ","%","v"," ","%","v">>
fmtPong == <<"P","O","N","G"," ","%","v">>
fmtQuit == <<"Q","U","I","T","%","v">>
strPingSp == <<"p","i","n","g"," ">>
strSpColon == <<" ",":">>

(***************************************************************************)
(* Error values.                                                           *)
(***************************************************************************)
ErrWrite == <<"write error">>
ErrRead == <<"read error">>
ErrDial == <<"dial error">>
Wrap(tag, err) == <<tag>> \o err

(***************************************************************************)
(* The line writer i.w (textproto.Writer over a bufio.Writer over i.S),    *)
(* as a value threaded through the send operations:                        *)
(*   ok   how many more writes the transport accepts before it fails,      *)
(*   err  the bufio.Writer's sticky error (once set every write fails),    *)
(*   out  every write attempted so far: who made it, for which call, the   *)
(*        text handed to the transport, and whether it was written.        *)
(***************************************************************************)
Writer(okCount, stickyErr, out) == [ok |-> okCount, err |-> stickyErr, out |-> out]

\* (*IRC).PrintfLine: the line is formed with Sprintf, and the formed line is
\* then passed as the FORMAT of textproto's Writer.PrintfLine, which runs
\* Fprintf over it again with no operands.
PrintfLine(w, by, op, f, a) ==
    LET line == Sprintf(f, a)
        text == Sprintf(line, <<>>)
        good == ~w.err /\ w.ok > 0
    IN  [w   |-> Writer(IF good THEN w.ok - 1 ELSE w.ok, ~good,
                        Append(w.out, [by |-> by, op |-> op, text |-> text, ok |-> good])),
         err |-> IF good THEN Nil ELSE ErrWrite]

\* the lines ID iterates over
IDLines(c, rnd) ==
    LET nick == IF c.RandomNumbers
                THEN Sprintf(fmtRandNick, <<c.Nick, Itoa(rnd)>>)
                ELSE c.Nick
    IN  << Sprintf(fmtNickColon, <<nick>>),
           Sprintf(fmtUser, <<c.Username, c.Realname>>),
           strNick >>

\* a failed send's error wrapped with the caller's context
WrapErr(r, tag) ==
    IF r.err # Nil THEN [w |-> r.w, err |-> Wrap(tag, r.err)] ELSE r

\* the loop of ID over its lines, from line k on: the first failure ends it
RECURSIVE IDLoop(_, _, _, _)
IDLoopNext(r, by, lines, k) ==
    IF r.err # Nil
    THEN WrapErr(r, "error sending ID line")
    ELSE IDLoop(r.w, by, lines, k + 1)

IDLoop(w, by, lines, k) ==
    IF k > Len(lines) THEN [w |-> w, err |-> Nil]
    ELSE IDLoopNext(PrintfLine(w, by, "ID", lines[k], <<>>), by, lines, k)

\* (*IRC).ID
ID(w, by, c, rnd) ==
    IF c.Nick = Nil \/ c.Username = Nil \/ c.Realname = Nil
    THEN [w |-> w, err |-> Nil]
    ELSE IDLoop(w, by, IDLines(c, rnd), 1)

\* Auth as it would be with the test for blank credentials requiring both
\* to be blank
AuthEither(w, by, c) ==
    IF c.IdNick = Nil /\ c.IdPass = Nil
    THEN [w |-> w, err |-> Nil]
    ELSE WrapErr(PrintfLine(w, by, "Auth",
                            Sprintf(fmtAuth, <<c.IdNick, c.IdPass>>), <<>>),
                 "error authenticating to services")

\* (*IRC).Auth
Auth(w, by, c) ==
    IF c.IdNick = Nil \/ c.IdPass = Nil
    THEN [w |-> w, err |-> Nil]
    ELSE WrapErr(PrintfLine(w, by, "Auth",
                            Sprintf(fmtAuth, <<c.IdNick, c.IdPass>>), <<>>),
                 "error authenticating to services")

\* Join, once the channel and password are resolved
JoinResolved(w, by, ch, pw) ==
    IF ch = Nil
    THEN [w |-> w, err |-> Nil]
    ELSE WrapErr(PrintfLine(w, by, "Join", Sprintf(fmtJoin, <<ch, pw>>), <<>>),
                 "error joining")

\* (*IRC).Join
Join(w, by, c, channel, pass) ==
    IF channel = Nil
    THEN JoinResolved(w, by, c.Channel, c.Chanpass)
    ELSE JoinResolved(w, by, channel, pass)

\* (*IRC).Handshake: ID, then Auth, then Join, each only if the one before
\* returned nil
HandshakeJoin(r2, by, c) ==
    IF r2.err # Nil
    THEN WrapErr(r2, "handshake error (Auth)")
    ELSE WrapErr(Join(r2.w, by, c, Nil, Nil), "handshake error (Join)")

HandshakeAuth(r1, by, c) ==
    IF r1.err # Nil
    THEN WrapErr(r1, "handshake error (ID)")
    ELSE HandshakeJoin(Auth(r1.w, by, c), by, c)

Handshake(w, by, c, rnd) == HandshakeAuth(ID(w, by, c, rnd), by, c)

\* (*IRC).Quit: the message it resolves and the send; closed says whether
\* the connection is closed by the call
QuitMsg(c, msg) ==
    LET m == IF msg = Nil /\ c.QuitMessage # Nil THEN c.QuitMessage ELSE msg
    IN  IF m # Nil THEN strSpColon \o m ELSE m

\* the connection is closed only after a successful send
QuitClose(r) == [w |-> r.w, err |-> r.err, closed |-> r.err = Nil]

Quit(w, by, c, msg) ==
    QuitClose(PrintfLine(w, by, "Quit", fmtQuit, <<QuitMsg(c, msg)>>))

fmtPrivmsg == <<"P","R","I","V","M","S","G"," ","%","v"," ",":","%","v">>
fmtPrivmsgPrefix == <<"P","R","I","V","M","S","G"," ","%","v"," ",":">>

\* (*IRC).target
target(c, t) ==
    IF t # Nil THEN t
    ELSE IF c.Default # Nil THEN c.Default
    ELSE c.Channel

\* Privmsg, once the target is resolved
PrivmsgTo(w, by, t, msg) ==
    IF t = Nil
    THEN [w |-> w, err |-> Nil]
    ELSE PrintfLine(w, by, "Privmsg", fmtPrivmsg, <<t, msg>>)

\* (*IRC).Privmsg
Privmsg(w, by, c, msg, tg) == PrivmsgTo(w, by, target(c, tg), msg)

\* bytes of the UTF-8 encoding of one rune: a rune written by its code point
\* takes two bytes below U+0800 and three from there on
TwoByteRunes == {"U+0663"}
ThreeByteRunes == {"U+2167"}
Utf8Len(c) == IF c \in ThreeByteRunes THEN 3
              ELSE IF c \in TwoByteRunes THEN 2
              ELSE 1

\* len([]byte(s))
RECURSIVE ByteLen(_)
ByteLen(s) == IF s = <<>> THEN 0 ELSE Utf8Len(Head(s)) + ByteLen(Tail(s))

\* PrivmsgSize as it would be if it counted runes
PrivmsgSizeRunes(c, t) ==
    IF t = Nil THEN -1
    ELSE c.Msglen - Len(Sprintf(fmtPrivmsgPrefix, <<t>>))

\* PrivmsgSize, once the target is resolved
PrivmsgSizeOf(c, t) ==
    IF t = Nil THEN -1
    ELSE c.Msglen - ByteLen(Sprintf(fmtPrivmsgPrefix, <<t>>))

\* (*IRC).PrivmsgSize
PrivmsgSize(c, tg) == PrivmsgSizeOf(c, target(c, tg))

(***************************************************************************)
(* Inputs: configurations, server lines, caller arguments.                 *)
(***************************************************************************)
\* New: the default maximum message length
DefaultMsglen == 467
\* ID sends three lines
NumIDLines == 3

Config(nick, user, real, idnick, idpass, chan, chanpass, pongs, rand, quitmsg) ==
    [Nick |-> nick, Username |-> user, Realname |-> real,
     IdNick |-> idnick, IdPass |-> idpass,
     Channel |-> chan, Chanpass |-> chanpass, Default |-> Nil,
     Pongs |-> pongs, RandomNumbers |-> rand, QuitMessage |-> quitmsg,
     Msglen |-> DefaultMsglen]

\* the settings of contrivedExample.go (shortened texts)
cfgExample == Config(<<"j","b">>, <<"j">>, <<"J"," ","B">>, <<"j","b">>, <<"p","w">>,
                     <<"#","m">>, Nil, TRUE, FALSE, Nil)
\* texts with a '%', a random nick suffix, no NickServ nick, no channel
cfgPct == Config(<<"n","%">>, <<"u">>, <<"r">>, Nil, <<"p","w">>,
                 Nil, Nil, TRUE, TRUE, <<"5","%">>)
\* no nick, NickServ credentials, a channel with a password, no auto-pong,
\* a quit message
cfgNoNick == Config(Nil, <<"u">>, <<"r">>, <<"i">>, <<"p">>,
                    <<"#","c">>, <<"k">>, FALSE, FALSE, <<"o","f","f">>)

Configs == {cfgExample, cfgPct, cfgNoNick}

\* values of i.rng.Int63()
RandInts == {0, 42}

linePingPct == <<"p","i","n","g"," ","%","d">>
linePingNum == <<"P","i","n","g"," ","0","0","1"," ","n"," ","r">>
lineNum == <<":","s"," ","0","0","1"," ","j","b"," ",":","h","i">>
SrvLines == {linePingNum, linePingPct, lineNum}

msgBye == <<"b","y","e">>
QuitArgs == {Nil, msgBye}
RawArgs == {<< <<"M","O","D","E">>, <<>> >>,
            << <<"W","H","O"," ","%","v">>, << <<"x">> >> >>}

\* configurations for the calls of the single operations: one of the three
\* identity fields missing, a random suffix without a '%', a default target,
\* a short maximum message length
cfgNoUser == [cfgExample EXCEPT !.Username = Nil]
cfgNoReal == [cfgExample EXCEPT !.Realname = Nil]
cfgRand == [cfgExample EXCEPT !.RandomNumbers = TRUE, !.Channel = Nil]
cfgDefault == [cfgNoNick EXCEPT !.Default = <<"d","f">>, !.Msglen = 12]
OpConfigs == Configs \cup {cfgNoUser, cfgNoReal, cfgRand, cfgDefault}

JoinArgs == {<<Nil, <<"z">>>>, <<<<"#","d">>, Nil>>, <<<<"#","d">>, <<"z">>>>,
             <<<<"#","%">>, <<"z">>>>}
PrivmsgArgs == {<<<<"h","i">>, Nil>>, <<<<"5","%">>, <<"b">>>>,
                <<<<"h","i">>, <<"U+2167","b">>>>}

\* server lines for the nick inspection: a prefix, a code, a nick and a rest,
\* joined by single spaces, and lines with a tab or a doubled space
TAB == "U+0009"
NickPrefixes == {<<":","s">>, <<"p","i","n","g">>, Nil}
NickCodes == {<<"0","0","1">>, <<"U+2167","0","1">>, <<"0","U+2167","1">>,
              <<"4","U+0663","3">>, <<"0","1">>, <<"0","0","1","1">>, <<"a","0","1">>}
NickNames == {<<"j","b">>, Nil}
NickRests == {<<":","h","i">>, <<":","h","i"," ","y","o","u">>, <<" ","x">>}
NickLines ==
    {p \o <<SP>> \o c \o <<SP>> \o n : p \in NickPrefixes, c \in NickCodes, n \in NickNames}
    \cup {p \o <<SP>> \o c \o <<SP>> \o n \o <<SP>> \o r :
             p \in NickPrefixes, c \in NickCodes, n \in NickNames, r \in NickRests}
    \cup {<<":","s",TAB,"0","0","1",TAB,"j","b",TAB,":","h","i">>,
          <<":","s",SP,SP,"0","0","1",SP,"j","b",SP,":","h","i">>,
          <<":","s",SP,"0","0","1",SP,SP,"j","b",SP,":","h","i">>}
\* what i.snick may hold from an earlier line
OldNicks == {Nil, <<"o">>}

\* ping lines for the reader to answer while the caller sends
RaceLines == {linePingNum, linePingPct}

\* how many writes the transport still accepts when an operation that makes
\* at most n writes starts (n: the transport does not fail during it)
WriteBudgets(n) == 0 .. n

\* the values i.rng.Int63() may return where the configuration uses it
Rands(c) == IF c.RandomNumbers THEN RandInts ELSE {0}

(***************************************************************************)
(* State.                                                                  *)
(***************************************************************************)
VARIABLES
    cfg,        \* the configuration fields of the IRC struct
    conn,       \* outcome of Connect: "new", "dialfail", "hsfail", "connected"
    S,          \* i.S: "nil", "open", "closed"
    werr,       \* sticky error of the bufio.Writer under i.w
    netDown,    \* the peer has gone or the network has failed
    inbox,      \* lines the server has sent and ReadLine has not yet returned
    srvSent,    \* every line the server has sent, in order
    sent,       \* every write attempted on i.w, in order
    rpc,        \* position of the reader goroutine
    line,       \* the reader's line
    rerr,       \* the reader's err
    rdLines,    \* every line ReadLine has returned, in order
    snick,      \* i.snick
    cClosed,    \* i.c has been closed
    e,          \* buffer of i.e (capacity 1)
    ePlaced,    \* number of values sent on i.e
    eAttempts,  \* number of times the reader reached a send on i.e
    cpc,        \* position of the consumer loop of contrivedExample.go
    received,   \* lines the consumer received from i.C, in order
    gotErr,     \* errors the consumer received from i.E, in order
    panic,      \* "none", or the run-time panic that ended the process
    ret,        \* the caller's last call: what it was and what it returned
    nsend,      \* caller send operations issued so far
    wr          \* the bufio.Writer under i.w and the bytes on the connection,
                \* where the steps of a write are told apart

vars == <<cfg, conn, S, werr, netDown, inbox, srvSent, sent, rpc, line, rerr,
          rdLines, snick, cClosed, e, ePlaced, eAttempts, cpc, received, gotErr,
          panic, ret, nsend, wr>>

netVars == <<netDown, inbox, srvSent>>
readerVars == <<rpc, line, rerr, rdLines, snick>>
chanVars == <<cClosed, e, ePlaced, eAttempts>>
consumerVars == <<cpc, received, gotErr>>

\* capacity of i.e
ECap == 1

Ret(seq, op, arg, err, first, last) ==
    [seq |-> seq, op |-> op, arg |-> arg, err |-> err, first |-> first, last |-> last]

\* the line terminator textproto writes
CR == "U+000D"
LF == "U+000A"
CRLF == <<CR, LF>>

\* the writer with nothing buffered and nothing written, the caller in no send
WriterIdle == [buf |-> <<>>, wire |-> <<>>, cpos |-> "idle", cop |-> "none"]

\* New
Init ==
    /\ cfg \in Configs
    /\ conn = "new"
    /\ S = "nil"
    /\ werr = FALSE
    /\ netDown = FALSE
    /\ inbox = <<>>
    /\ srvSent = <<>>
    /\ sent = <<>>
    /\ rpc = "none"
    /\ line = Nil
    /\ rerr = Nil
    /\ rdLines = <<>>
    /\ snick = Nil
    /\ cClosed = FALSE
    /\ e = <<>>
    /\ ePlaced = 0
    /\ eAttempts = 0
    /\ cpc = "idle"
    /\ received = <<>>
    /\ gotErr = <<>>
    /\ panic = "none"
    /\ ret = Ret(0, "none", <<>>, Nil, 1, 0)
    /\ nsend = 0
    /\ wr = WriterIdle

\* the writer as an operation finds it: a closed or absent connection
\* accepts no write, an open one accepts k more
CurWriter(k) == Writer(IF S = "open" THEN k ELSE 0, werr, sent)

\* the effect of a send operation's result r on the shared state
Wrote(r) ==
    /\ sent' = r.w.out
    /\ werr' = r.w.err
    /\ netDown' = (netDown \/ (r.w.err /\ S = "open"))

(***************************************************************************)
(* The caller.                                                             *)
(***************************************************************************)
\* Connect as it would be if the goroutine were started before the result
\* of Handshake is looked at
ConnectDialedAlways(r) ==
    /\ S' = "open"
    /\ sent' = r.w.out
    /\ werr' = r.w.err
    /\ netDown' = r.w.err
    /\ conn' = IF r.err # Nil THEN "hsfail" ELSE "connected"
    /\ ret' = Ret(ret.seq + 1, "Connect", <<>>,
                  IF r.err # Nil THEN Wrap("unable to handshake", r.err) ELSE Nil,
                  Len(sent) + 1, Len(r.w.out))
    /\ rpc' = "read"
    /\ cpc' = "recv"

\* Connect after a successful dial, r being what Handshake returned: the
\* reader goroutine is started only when Handshake returned nil
ConnectDialed(r) ==
    /\ S' = "open"
    /\ sent' = r.w.out
    /\ werr' = r.w.err
    /\ netDown' = r.w.err
    /\ IF r.err # Nil
       THEN /\ conn' = "hsfail"
            /\ ret' = Ret(ret.seq + 1, "Connect", <<>>,
                          Wrap("unable to handshake", r.err),
                          Len(sent) + 1, Len(r.w.out))
            /\ UNCHANGED <<rpc, cpc>>
       ELSE /\ conn' = "connected"
            /\ ret' = Ret(ret.seq + 1, "Connect", <<>>, Nil,
                          Len(sent) + 1, Len(r.w.out))
            /\ rpc' = "read"
            /\ cpc' = "recv"

\* (*IRC).Connect: dial, then Handshake, then start the reader goroutine.
\* k is the number of writes the fresh connection accepts before failing.
Connect ==
    /\ panic = "none"
    /\ conn = "new"
    /\ \E dialok \in BOOLEAN, k \in WriteBudgets(NumIDLines + 2), rnd \in Rands(cfg) :
         IF ~dialok
         THEN /\ conn' = "dialfail"
              /\ ret' = Ret(ret.seq + 1, "Connect", <<>>,
                            Wrap("unable to make connection", ErrDial),
                            Len(sent) + 1, Len(sent))
              /\ UNCHANGED <<S, werr, sent, rpc, cpc, netDown>>
         ELSE ConnectDialed(Handshake(Writer(k, FALSE, sent), "caller", cfg, rnd))
    /\ UNCHANGED <<cfg, wr, inbox, srvSent, line, rerr, rdLines, snick,
                   chanVars, received, gotErr, panic, nsend>>

\* a caller may send once the dial has given the Session its writer
CanSend ==
    /\ panic = "none"
    /\ S # "nil"
    /\ nsend < MaxSends

\* a caller send as it would be if a caller that found the writer failed
\* closed the output channel itself
SendFrameClosing ==
    /\ nsend' = nsend + 1
    /\ cClosed' = (cClosed \/ werr)
    /\ UNCHANGED <<cfg, wr, conn, inbox, srvSent, readerVars, e, ePlaced, eAttempts,
                   consumerVars, panic>>

\* what every caller send leaves alone
SendFrame ==
    /\ nsend' = nsend + 1
    /\ UNCHANGED <<cfg, wr, conn, inbox, srvSent, readerVars, chanVars, consumerVars, panic>>

\* a send operation op(arg) returned r: its writes and its result
Returned(op, arg, r) ==
    /\ sent' = r.w.out
    /\ werr' = r.w.err
    /\ netDown' = (netDown \/ (r.w.err /\ S = "open"))
    /\ ret' = Ret(ret.seq + 1, op, arg, r.err, Len(sent) + 1, Len(r.w.out))

CallPrintfLine ==
    /\ CanSend
    /\ \E k \in WriteBudgets(1), a \in RawArgs :
         Returned("PrintfLine", <<a[1]>>,
                  PrintfLine(CurWriter(k), "caller", "PrintfLine", a[1], a[2]))
    /\ SendFrame
    /\ UNCHANGED S

\* Quit returned r
QuitReturned(msg, r) ==
    /\ Returned("Quit", <<msg>>, r)
    /\ S' = IF r.closed THEN "closed" ELSE S

CallQuit ==
    /\ CanSend
    /\ \E k \in WriteBudgets(1), msg \in QuitArgs :
         QuitReturned(msg, Quit(CurWriter(k), "caller", cfg, msg))
    /\ SendFrame

(***************************************************************************)
(* The single operations, called by themselves after the dial.             *)
(***************************************************************************)
CallID ==
    /\ CanSend
    /\ \E k \in WriteBudgets(NumIDLines), rnd \in Rands(cfg) :
         Returned("ID", <<>>, ID(CurWriter(k), "caller", cfg, rnd))
    /\ SendFrame
    /\ UNCHANGED S

CallAuth ==
    /\ CanSend
    /\ \E k \in WriteBudgets(1) :
         Returned("Auth", <<>>, Auth(CurWriter(k), "caller", cfg))
    /\ SendFrame
    /\ UNCHANGED S

CallJoin ==
    /\ CanSend
    /\ \E k \in WriteBudgets(1), a \in JoinArgs :
         Returned("Join", a, Join(CurWriter(k), "caller", cfg, a[1], a[2]))
    /\ SendFrame
    /\ UNCHANGED S

CallHandshake ==
    /\ CanSend
    /\ \E k \in WriteBudgets(NumIDLines + 2), rnd \in Rands(cfg) :
         Returned("Handshake", <<>>, Handshake(CurWriter(k), "caller", cfg, rnd))
    /\ SendFrame
    /\ UNCHANGED S

CallPrivmsg ==
    /\ CanSend
    /\ \E k \in WriteBudgets(1), a \in PrivmsgArgs :
         Returned("Privmsg", a, Privmsg(CurWriter(k), "caller", cfg, a[1], a[2]))
    /\ SendFrame
    /\ UNCHANGED S

\* PrivmsgSize: no send; the value returned is recorded
CallPrivmsgSize ==
    /\ CanSend
    /\ \E a \in PrivmsgArgs :
         ret' = [Ret(ret.seq + 1, "PrivmsgSize", <<a[2]>>, Nil, Len(sent) + 1, Len(sent))
                   EXCEPT !.err = <<PrivmsgSize(cfg, a[2])>>]
    /\ SendFrame
    /\ UNCHANGED <<S, sent, werr, netDown>>

(***************************************************************************)
(* The server and the network.                                             *)
(***************************************************************************)
ServerSend ==
    /\ panic = "none"
    /\ conn = "connected"
    /\ S = "open"
    /\ ~netDown
    /\ Len(srvSent) < MaxLines
    /\ \E l \in SrvLines :
         /\ inbox' = Append(inbox, l)
         /\ srvSent' = Append(srvSent, l)
    /\ UNCHANGED <<cfg, wr, conn, S, werr, netDown, sent, readerVars, chanVars,
                   consumerVars, panic, ret, nsend>>

\* the peer closes the connection or the network fails
NetFail ==
    /\ panic = "none"
    /\ S = "open"
    /\ ~netDown
    /\ netDown' = TRUE
    /\ UNCHANGED <<cfg, wr, conn, S, werr, inbox, srvSent, sent, readerVars, chanVars,
                   consumerVars, panic, ret, nsend>>

(***************************************************************************)
(* The reader goroutine started by Connect.  Its positions:                *)
(*   "none"      not started                                               *)
(*   "read"      at i.r.ReadLine()                                         *)
(*   "rd_esend"  at i.e <- err after a failed read                         *)
(*   "rd_close"  at close(i.c) after a failed read                         *)
(*   "ping"      at the auto-pong test                                     *)
(*   "pg_esend"  at i.e <- err after a failed PONG                         *)
(*   "pg_close"  at close(i.c) after a failed PONG                         *)
(*   "nick"      at the nick inspection                                    *)
(*   "deliver"   at i.c <- line                                            *)
(*   "dead"      ended by a panic                                          *)
(* Neither error branch returns or breaks: control falls through to the    *)
(* rest of the loop body.                                                  *)
(***************************************************************************)
\* a rune outside ASCII is written by its code point: U+0663 (ARABIC-INDIC
\* DIGIT THREE) is a decimal digit, U+2167 (ROMAN NUMERAL EIGHT) is a number
\* and not a digit
DigitRunes == {"U+0663"}
NumberRunes == {"U+2167"}
IsDigit(c) == c \in Digits \cup DigitRunes
IsNumber(c) == IsDigit(c) \/ c \in NumberRunes

\* the auto-pong test
IsPing(c, l) == c.Pongs /\ HasPrefix(ToLower(l), strPingSp)

\* the operand of the PONG: what follows the first space of the line
PongArg(l) == SplitN(l, SP, 2)[2]

\* the nick inspection as it would be if a line of more than four pieces
\* were left alone
SNickAfterExact(old, l) ==
    LET parts == SplitN(l, SP, 5) IN
    IF /\ Len(parts) = 4
       /\ Len(parts[2]) = 3
       /\ IsNumber(parts[2][1])
       /\ IsDigit(parts[2][2])
       /\ IsDigit(parts[2][3])
    THEN parts[3]
    ELSE old

\* the nick inspection: i.snick after the line l
SNickAfter(old, l) ==
    LET parts == SplitN(l, SP, 4) IN
    IF /\ Len(parts) = 4
       /\ Len(parts[2]) = 3
       /\ IsNumber(parts[2][1])
       /\ IsDigit(parts[2][2])
       /\ IsDigit(parts[2][3])
    THEN parts[3]
    ELSE old

\* ReadLine returns a line
RRead ==
    /\ panic = "none"
    /\ rpc = "read"
    /\ inbox # <<>>
    /\ line' = Head(inbox)
    /\ rerr' = Nil
    /\ inbox' = Tail(inbox)
    /\ rdLines' = Append(rdLines, Head(inbox))
    /\ rpc' = "ping"
    /\ UNCHANGED <<cfg, wr, conn, S, werr, netDown, srvSent, sent, snick, chanVars,
                   consumerVars, panic, ret, nsend>>

\* the failed read as it would be without the test of err
RReadErrIgnored ==
    /\ panic = "none"
    /\ rpc = "read"
    /\ netDown \/ S = "closed"
    /\ line' = Nil
    /\ rerr' = ErrRead
    /\ rpc' = "ping"
    /\ UNCHANGED <<cfg, wr, conn, S, werr, netDown, inbox, srvSent, sent, rdLines, snick,
                   chanVars, consumerVars, panic, ret, nsend>>

\* ReadLine fails (the line it returns with an error is empty); the reader
\* goes to send the error
RReadErr ==
    /\ panic = "none"
    /\ rpc = "read"
    /\ netDown \/ S = "closed"
    /\ line' = Nil
    /\ rerr' = ErrRead
    /\ rpc' = "rd_esend"
    /\ eAttempts' = eAttempts + 1
    /\ UNCHANGED <<cfg, wr, conn, S, werr, netDown, inbox, srvSent, sent, rdLines, snick,
                   cClosed, e, ePlaced, consumerVars, panic, ret, nsend>>

\* the error branch as it would be without the send on i.e
RErrSendDropped ==
    /\ panic = "none"
    /\ rpc \in {"rd_esend", "pg_esend"}
    /\ rpc' = IF rpc = "rd_esend" THEN "rd_close" ELSE "pg_close"
    /\ UNCHANGED <<cfg, wr, conn, S, werr, netVars, sent, line, rerr, rdLines, snick,
                   chanVars, consumerVars, panic, ret, nsend>>

\* i.e <- err: blocks while the buffer is full
RErrSend ==
    /\ panic = "none"
    /\ rpc \in {"rd_esend", "pg_esend"}
    /\ Len(e) < ECap
    /\ e' = Append(e, rerr)
    /\ ePlaced' = ePlaced + 1
    /\ rpc' = IF rpc = "rd_esend" THEN "rd_close" ELSE "pg_close"
    /\ UNCHANGED <<cfg, wr, conn, S, werr, netVars, sent, line, rerr, rdLines, snick,
                   cClosed, eAttempts, consumerVars, panic, ret, nsend>>

\* close(i.c): closing a closed channel panics; otherwise control goes on to
\* the statement after the error branch
RClose ==
    /\ panic = "none"
    /\ rpc \in {"rd_close", "pg_close"}
    /\ IF cClosed
       THEN /\ panic' = "close of closed channel"
            /\ rpc' = "dead"
            /\ UNCHANGED cClosed
       ELSE /\ cClosed' = TRUE
            /\ rpc' = IF rpc = "rd_close" THEN "ping" ELSE "nick"
            /\ UNCHANGED panic
    /\ UNCHANGED <<cfg, wr, conn, S, werr, netVars, sent, line, rerr, rdLines, snick,
                   e, ePlaced, eAttempts, consumerVars, ret, nsend>>

\* the reader after its PONG send returned r: a failed send takes it to the
\* second error branch
PongReturned(r) ==
    /\ Wrote(r)
    /\ IF r.err # Nil
       THEN /\ rerr' = r.err
            /\ rpc' = "pg_esend"
            /\ eAttempts' = eAttempts + 1
       ELSE /\ rpc' = "nick"
            /\ UNCHANGED <<rerr, eAttempts>>

\* the auto-pong: a PONG is written for a ping line
RPing ==
    /\ panic = "none"
    /\ rpc = "ping"
    /\ IF IsPing(cfg, line)
       THEN \E k \in WriteBudgets(1) :
              PongReturned(PrintfLine(CurWriter(k), "reader", "PONG", fmtPong,
                                      <<PongArg(line)>>))
       ELSE /\ rpc' = "nick"
            /\ UNCHANGED <<sent, werr, netDown, rerr, eAttempts>>
    /\ UNCHANGED <<cfg, wr, conn, S, inbox, srvSent, line, rdLines, snick,
                   cClosed, e, ePlaced, consumerVars, panic, ret, nsend>>

\* the nick inspection
RNick ==
    /\ panic = "none"
    /\ rpc = "nick"
    /\ snick' = SNickAfter(snick, line)
    /\ rpc' = "deliver"
    /\ UNCHANGED <<cfg, wr, conn, S, werr, netVars, sent, line, rerr, rdLines,
                   chanVars, consumerVars, panic, ret, nsend>>

\* the send on the closed channel as it would be if it were skipped and the
\* loop went on
RSendClosedSkipped ==
    /\ panic = "none"
    /\ rpc = "deliver"
    /\ cClosed
    /\ rpc' = "read"
    /\ UNCHANGED <<cfg, wr, conn, S, werr, netVars, sent, line, rerr, rdLines, snick,
                   chanVars, consumerVars, panic, ret, nsend>>

\* i.c <- line on the closed channel: a run-time panic, which ends the process
RSendClosed ==
    /\ panic = "none"
    /\ rpc = "deliver"
    /\ cClosed
    /\ panic' = "send on closed channel"
    /\ rpc' = "dead"
    /\ UNCHANGED <<cfg, wr, conn, S, werr, netVars, sent, line, rerr, rdLines, snick,
                   chanVars, consumerVars, ret, nsend>>

\* the delivery as it would be if i.c had a buffer: the reader goes on
\* without a receiver
DeliverBuffered ==
    /\ panic = "none"
    /\ rpc = "deliver"
    /\ ~cClosed
    /\ rpc' = "read"
    /\ UNCHANGED <<cfg, wr, conn, S, werr, netVars, sent, line, rerr, rdLines, snick,
                   chanVars, consumerVars, panic, ret, nsend>>

\* i.c <- line meets the consumer's receive (i.c is unbuffered)
Deliver ==
    /\ panic = "none"
    /\ rpc = "deliver"
    /\ ~cClosed
    /\ cpc = "recv"
    /\ received' = Append(received, line)
    /\ rpc' = "read"
    /\ UNCHANGED <<cfg, wr, conn, S, werr, netVars, sent, line, rerr, rdLines, snick,
                   chanVars, cpc, gotErr, panic, ret, nsend>>

(***************************************************************************)
(* The consumer loop of contrivedExample.go: "recv" at the receive from    *)
(* irc.C, "drain" at the receive from irc.E, then "done".                  *)
(***************************************************************************)
\* the receive from irc.C reports the channel closed
CSeeClosed ==
    /\ panic = "none"
    /\ cpc = "recv"
    /\ cClosed
    /\ cpc' = "drain"
    /\ UNCHANGED <<cfg, wr, conn, S, werr, netVars, sent, readerVars, chanVars,
                   received, gotErr, panic, ret, nsend>>

\* err := <-irc.E: blocks while the buffer is empty
CRecvE ==
    /\ panic = "none"
    /\ cpc = "drain"
    /\ e # <<>>
    /\ gotErr' = Append(gotErr, Head(e))
    /\ e' = Tail(e)
    /\ cpc' = "done"
    /\ UNCHANGED <<cfg, wr, conn, S, werr, netVars, sent, readerVars, cClosed,
                   ePlaced, eAttempts, received, panic, ret, nsend>>

(***************************************************************************)
(* The writer, step by step.  i.w is a textproto.Writer over a             *)
(* bufio.Writer over i.S, shared by the caller and the reader goroutine    *)
(* with no lock.  A send through it is four steps:                         *)
(*   Fprintf        the formatted line is appended to the buffer           *)
(*   Write(crnl)    the terminator is appended to the buffer               *)
(*   Flush, write   the buffer is written to the connection                *)
(*   Flush, reset   the buffer is emptied                                  *)
(* The caller's position in a send is wr.cpos: "idle", "term", "flush",    *)
(* "reset"; the reader's is rpc: "ping" before its send, then "pg_term",   *)
(* "pg_flush", "pg_reset".  Every step is taken whole here, and the        *)
(* connection accepts every write.                                         *)
(***************************************************************************)
\* a writer that accepts one write
OneWrite == Writer(1, FALSE, <<>>)

\* the sends a caller may make: the record of each line as the operation
\* forms it
RaceSends ==
    {PrintfLine(OneWrite, "caller", "PrintfLine", a[1], a[2]).w.out[1] : a \in RawArgs}
    \cup {Privmsg(OneWrite, "caller", cfg, a[1], a[2]).w.out[1] : a \in PrivmsgArgs}
    \cup {Join(OneWrite, "caller", cfg, a[1], a[2]).w.out[1] : a \in JoinArgs}

\* the caller's send: Fprintf
RaceSendWrite ==
    /\ panic = "none"
    /\ S = "open"
    /\ nsend < MaxSends
    /\ wr.cpos = "idle"
    /\ \E r \in RaceSends :
         /\ sent' = Append(sent, r)
         /\ wr' = [wr EXCEPT !.buf = @ \o r.text, !.cpos = "term", !.cop = r.op]
    /\ nsend' = nsend + 1
    /\ UNCHANGED <<cfg, conn, S, werr, netVars, readerVars, chanVars, consumerVars,
                   panic, ret>>

\* the caller's send: Write(crnl)
RaceSendTerm ==
    /\ panic = "none"
    /\ wr.cpos = "term"
    /\ wr' = [wr EXCEPT !.buf = @ \o CRLF, !.cpos = "flush"]
    /\ UNCHANGED <<cfg, conn, S, werr, netVars, sent, readerVars, chanVars,
                   consumerVars, panic, ret, nsend>>

\* the caller's send: Flush writes the buffer out, or returns at once when
\* it finds the buffer empty
RaceSendFlush ==
    /\ panic = "none"
    /\ wr.cpos = "flush"
    /\ IF wr.buf = <<>>
       THEN /\ wr' = [wr EXCEPT !.cpos = "idle"]
            /\ ret' = Ret(ret.seq + 1, wr.cop, <<>>, Nil, Len(sent), Len(sent))
       ELSE /\ wr' = [wr EXCEPT !.wire = @ \o wr.buf, !.cpos = "reset"]
            /\ UNCHANGED ret
    /\ UNCHANGED <<cfg, conn, S, werr, netVars, sent, readerVars, chanVars,
                   consumerVars, panic, nsend>>

\* the caller's send: Flush empties the buffer, and the send returns
RaceSendReset ==
    /\ panic = "none"
    /\ wr.cpos = "reset"
    /\ wr' = [wr EXCEPT !.buf = <<>>, !.cpos = "idle"]
    /\ ret' = Ret(ret.seq + 1, wr.cop, <<>>, Nil, Len(sent), Len(sent))
    /\ UNCHANGED <<cfg, conn, S, werr, netVars, sent, readerVars, chanVars,
                   consumerVars, panic, nsend>>

\* the reader's auto-pong: Fprintf of the PONG for a ping line
RacePongWrite ==
    /\ panic = "none"
    /\ rpc = "ping"
    /\ IF IsPing(cfg, line)
       THEN \E r \in {PrintfLine(OneWrite, "reader", "PONG", fmtPong,
                                 <<PongArg(line)>>).w.out[1]} :
              /\ sent' = Append(sent, r)
              /\ wr' = [wr EXCEPT !.buf = @ \o r.text]
              /\ rpc' = "pg_term"
       ELSE /\ rpc' = "nick"
            /\ UNCHANGED <<sent, wr>>
    /\ UNCHANGED <<cfg, conn, S, werr, netVars, line, rerr, rdLines, snick,
                   chanVars, consumerVars, panic, ret, nsend>>

\* the reader's auto-pong: Write(crnl)
RacePongTerm ==
    /\ panic = "none"
    /\ rpc = "pg_term"
    /\ wr' = [wr EXCEPT !.buf = @ \o CRLF]
    /\ rpc' = "pg_flush"
    /\ UNCHANGED <<cfg, conn, S, werr, netVars, sent, line, rerr, rdLines, snick,
                   chanVars, consumerVars, panic, ret, nsend>>

\* the reader's auto-pong: Flush writes the buffer out, or returns at once
RacePongFlush ==
    /\ panic = "none"
    /\ rpc = "pg_flush"
    /\ IF wr.buf = <<>>
       THEN /\ rpc' = "nick"
            /\ UNCHANGED wr
       ELSE /\ wr' = [wr EXCEPT !.wire = @ \o wr.buf]
            /\ rpc' = "pg_reset"
    /\ UNCHANGED <<cfg, conn, S, werr, netVars, sent, line, rerr, rdLines, snick,
                   chanVars, consumerVars, panic, ret, nsend>>

\* the reader's auto-pong: Flush empties the buffer, and the send returns
RacePongReset ==
    /\ panic = "none"
    /\ rpc = "pg_reset"
    /\ wr' = [wr EXCEPT !.buf = <<>>]
    /\ rpc' = "nick"
    /\ UNCHANGED <<cfg, conn, S, werr, netVars, sent, line, rerr, rdLines, snick,
                   chanVars, consumerVars, panic, ret, nsend>>

Next ==
    \/ Connect
    \/ CallPrintfLine
    \/ CallQuit
    \/ ServerSend
    \/ NetFail
    \/ RRead
    \/ RReadErr
    \/ RErrSend
    \/ RClose
    \/ RPing
    \/ RNick
    \/ RSendClosed
    \/ Deliver
    \/ CSeeClosed
    \/ CRecvE

Spec == Init /\ [][Next]_vars

(***************************************************************************)
(* The single operations on their own: every configuration, every caller   *)
(* operation, and a reader that meets no line, only the end of the stream. *)
(***************************************************************************)
InitOps ==
    /\ cfg \in OpConfigs
    /\ conn = "new"
    /\ S = "nil"
    /\ werr = FALSE
    /\ netDown = FALSE
    /\ inbox = <<>>
    /\ srvSent = <<>>
    /\ sent = <<>>
    /\ rpc = "none"
    /\ line = Nil
    /\ rerr = Nil
    /\ rdLines = <<>>
    /\ snick = Nil
    /\ cClosed = FALSE
    /\ e = <<>>
    /\ ePlaced = 0
    /\ eAttempts = 0
    /\ cpc = "idle"
    /\ received = <<>>
    /\ gotErr = <<>>
    /\ panic = "none"
    /\ ret = Ret(0, "none", <<>>, Nil, 1, 0)
    /\ nsend = 0
    /\ wr = WriterIdle

NextOps ==
    \/ Connect
    \/ CallID
    \/ CallAuth
    \/ CallJoin
    \/ CallHandshake
    \/ CallPrintfLine
    \/ CallPrivmsg
    \/ CallPrivmsgSize
    \/ CallQuit
    \/ NetFail
    \/ RReadErr
    \/ RErrSend
    \/ RClose
    \/ RPing
    \/ RNick
    \/ RSendClosed
    \/ CSeeClosed
    \/ CRecvE

SpecOps == InitOps /\ [][NextOps]_vars

(***************************************************************************)
(* The reader over one line: the session is connected, the server has sent *)
(* a line, and the reader reads it, answers it if it is a ping, inspects   *)
(* it for the nick and delivers it.                                        *)
(***************************************************************************)
InitNick ==
    /\ cfg = cfgExample
    /\ conn = "connected"
    /\ S = "open"
    /\ werr = FALSE
    /\ netDown = FALSE
    /\ inbox \in {<<l>> : l \in NickLines}
    /\ srvSent = inbox
    /\ sent = <<>>
    /\ rpc = "read"
    /\ line = Nil
    /\ rerr = Nil
    /\ rdLines = <<>>
    /\ snick \in OldNicks
    /\ cClosed = FALSE
    /\ e = <<>>
    /\ ePlaced = 0
    /\ eAttempts = 0
    /\ cpc = "recv"
    /\ received = <<>>
    /\ gotErr = <<>>
    /\ panic = "none"
    /\ ret = Ret(1, "Connect", <<>>, Nil, 1, 0)
    /\ nsend = 0
    /\ wr = WriterIdle

NextNick ==
    \/ RRead
    \/ RPing
    \/ RNick
    \/ Deliver

SpecNick == InitNick /\ [][NextNick]_vars

(***************************************************************************)
(* The caller's sends beside the reader's auto-pong: the session is        *)
(* connected, the server has sent a ping line, and the caller sends while  *)
(* the reader reads the line, answers it and delivers it.                  *)
(***************************************************************************)
InitRace ==
    /\ cfg = cfgExample
    /\ conn = "connected"
    /\ S = "open"
    /\ werr = FALSE
    /\ netDown = FALSE
    /\ inbox \in {<<l>> : l \in RaceLines}
    /\ srvSent = inbox
    /\ sent = <<>>
    /\ rpc = "read"
    /\ line = Nil
    /\ rerr = Nil
    /\ rdLines = <<>>
    /\ snick = Nil
    /\ cClosed = FALSE
    /\ e = <<>>
    /\ ePlaced = 0
    /\ eAttempts = 0
    /\ cpc = "recv"
    /\ received = <<>>
    /\ gotErr = <<>>
    /\ panic = "none"
    /\ ret = Ret(1, "Connect", <<>>, Nil, 1, 0)
    /\ nsend = 0
    /\ wr = WriterIdle

NextRace ==
    \/ RaceSendWrite
    \/ RaceSendTerm
    \/ RaceSendFlush
    \/ RaceSendReset
    \/ RRead
    \/ RacePongWrite
    \/ RacePongTerm
    \/ RacePongFlush
    \/ RacePongReset
    \/ RNick
    \/ Deliver

SpecRace == InitRace /\ [][NextRace]_vars

(***************************************************************************)
(* Properties.                                                             *)
(***************************************************************************)
IsPrefix(s, t) ==
    /\ Len(s) <= Len(t)
    /\ \A k \in 1..Len(s) : s[k] = t[k]

\* the writes the reader made, and the handshake writes
ReaderWrites == SelectSeq(sent, LAMBDA r : r.by = "reader")
HandshakeWrites == SelectSeq(sent, LAMBDA r : r.op \in {"ID", "Auth", "Join"})

\* C1: the output channel is closed at most once and nothing is sent on it
\* after the close: neither channel panic is reachable.
C1_NoPanicOnC ==
    panic \notin {"send on closed channel", "close of closed channel"}

\* C2: when the output channel is closed an error has already been placed on
\* the error channel, and a consumer that has seen the close and turns to the
\* error channel finds a value there.
C2_ErrorBeforeClose ==
    /\ cClosed => ePlaced >= 1
    /\ cpc = "drain" => e # <<>>

C2_Witness ==
    /\ cClosed
    /\ cpc = "drain"
    /\ e = <<ErrRead>>

\* C3: at most one value is ever placed on the error channel, the reader
\* reaches a send on it at most once, and it finds the buffer empty there.
C3_OneError ==
    /\ ePlaced <= 1
    /\ eAttempts <= 1
    /\ Len(e) <= ECap
    /\ rpc \in {"rd_esend", "pg_esend"} => e = <<>>

C3_Witness ==
    /\ ePlaced = 1
    /\ rpc = "dead"
    /\ nsend >= 1

\* C4: the lines the consumer has received are a prefix of the lines read,
\* which are a prefix of the lines the server sent; at most one line read is
\* not yet delivered.
C4_InOrder ==
    /\ IsPrefix(received, rdLines)
    /\ IsPrefix(rdLines, srvSent)
    /\ Len(rdLines) - Len(received) <= 1

C4_Witness ==
    /\ Len(received) = 2
    /\ received[1] # received[2]
    /\ cClosed

\* the lines read that the reader has taken past the auto-pong test, and the
\* ping lines among a sequence of lines
LinesHandled ==
    IF rpc = "ping" /\ rerr = Nil
    THEN SubSeq(rdLines, 1, Len(rdLines) - 1)
    ELSE rdLines
PingLines(ls) == SelectSeq(ls, LAMBDA l : HasPrefix(ToLower(l), strPingSp))
strPongSp == <<"P","O","N","G"," ">>
AfterFirstSpace(l) == SubSeq(l, IndexFrom(l, SP, 1) + 1, Len(l))

\* C5: with auto-pong enabled the reader's writes are, in order, exactly one
\* "PONG <text after the first space>" for each ping line it has handled, a
\* ping line is delivered only after its PONG was attempted, and without
\* auto-pong the reader writes nothing.
C5_PongPerPing ==
    LET pings == PingLines(LinesHandled) IN
    IF cfg.Pongs
    THEN /\ Len(ReaderWrites) = Len(pings)
         /\ \A k \in 1..Len(pings) :
              ReaderWrites[k].text = strPongSp \o AfterFirstSpace(pings[k])
         /\ Len(PingLines(received)) <= Len(ReaderWrites)
    ELSE ReaderWrites = <<>>

\* C6: once the error of a failed PONG write is on the error channel and the
\* output channel is closed, the reader is finished: it takes no further
\* step, and the ping line is not delivered.
C6_PongFailureEndsLoop ==
    [][(rerr = ErrWrite /\ cClosed)
         => (UNCHANGED <<rpc, line, rerr, snick, panic>> /\ received' = received)]_vars

\* C7: after a successful Quit("bye") with no QuitMessage configured, the
\* line written is "QUIT :bye", the transport is closed, the process does
\* not panic, and the error the consumer ends with is the read error.
QuitByeReturned ==
    /\ conn = "connected"
    /\ cfg.QuitMessage = Nil
    /\ ret.op = "Quit"
    /\ ret.arg = <<msgBye>>
    /\ ret.err = Nil

C7_QuitEndsCleanly ==
    QuitByeReturned =>
        /\ ret.first = ret.last
        /\ sent[ret.last].text = <<"Q","U","I","T"," ",":","b","y","e">>
        /\ S = "closed"
        /\ panic = "none"
        /\ cpc = "done" => gotErr = <<ErrRead>>

\* the message Quit is to use: the argument, else the configured one
ResolvedQuitMessage(msg) == IF msg # Nil THEN msg ELSE cfg.QuitMessage

\* C8: a Quit call makes one write, of "QUIT" followed by " :<message>" when
\* a message resolves; it returns nil and closes the transport when the write
\* succeeds, and returns the error and leaves the transport as it was when
\* the write fails.
C8_QuitContract ==
    [][(ret'.seq # ret.seq /\ ret'.op = "Quit") =>
         LET m == ResolvedQuitMessage(ret'.arg[1])
             rec == sent'[ret'.last]
         IN  /\ ret'.first = ret'.last
             /\ Len(sent') = Len(sent) + 1
             /\ rec.text = <<"Q","U","I","T">> \o
                             (IF m # Nil THEN <<" ", ":">> \o m ELSE <<>>)
             /\ rec.ok <=> ret'.err = Nil
             /\ rec.ok => S' = "closed"
             /\ ~rec.ok => S' = S /\ ret'.err = ErrWrite]_vars

\* C9: the reader runs exactly when Connect succeeded; after a failed dial
\* nothing was written; after a failed handshake Connect returned an error
\* and left the transport open, no reader runs, nothing was delivered, the
\* output channel is open and the error channel never received a value.
C9_ReaderOnlyAfterHandshake ==
    /\ rpc # "none" <=> conn = "connected"
    /\ cpc # "idle" => conn = "connected"
    /\ conn = "dialfail" => sent = <<>> /\ S = "nil" /\ ret.err # Nil
    /\ conn = "hsfail" =>
         /\ ret.op = "Connect" => (ret.err # Nil /\ S = "open")
         /\ received = <<>>
         /\ ~cClosed
         /\ ePlaced = 0
         /\ eAttempts = 0
    /\ conn = "connected" /\ ret.op = "Connect" => ret.err = Nil

C9_Witness ==
    /\ conn = "hsfail"
    /\ Len(sent) >= 2
    /\ nsend >= 1

\* the steps Handshake is to take under the configuration, in order
ExpectedSteps ==
    (IF cfg.Nick # Nil /\ cfg.Username # Nil /\ cfg.Realname # Nil
     THEN <<"ID", "ID", "ID">> ELSE <<>>)
    \o (IF cfg.IdNick # Nil /\ cfg.IdPass # Nil THEN <<"Auth">> ELSE <<>>)
    \o (IF cfg.Channel # Nil THEN <<"Join">> ELSE <<>>)

\* the command each of those writes begins with
ExpectedCommands ==
    (IF cfg.Nick # Nil /\ cfg.Username # Nil /\ cfg.Realname # Nil
     THEN << <<"N","I","C","K"," ",":">>, <<"U","S","E","R"," ">>, <<"N","I","C","K">> >>
     ELSE <<>>)
    \o (IF cfg.IdNick # Nil /\ cfg.IdPass # Nil
        THEN << <<"P","R","I","V","M","S","G"," ","N","i","c","k","S","e","r","v"," ",":">> >>
        ELSE <<>>)
    \o (IF cfg.Channel # Nil THEN << <<"J","O","I","N"," ">> \o cfg.Channel >> ELSE <<>>)

StepError(op) ==
    CASE op = "ID" -> "handshake error (ID)"
      [] op = "Auth" -> "handshake error (Auth)"
      [] op = "Join" -> "handshake error (Join)"

\* C10: the handshake's writes are the Identify lines, then the Authenticate
\* line (both NickServ fields set), then the Join line (default channel set),
\* in that order, each beginning with its command; only the last write made can have failed, a failure ends
\* the handshake with an error naming its step, and a handshake that
\* succeeded made every write.
C10_HandshakeOrder ==
    LET hs == HandshakeWrites
        n == Len(hs)
    IN  /\ IsPrefix([k \in 1..n |-> hs[k].op], ExpectedSteps)
        /\ \A k \in 1..n : HasPrefix(hs[k].text, ExpectedCommands[k])
        /\ \A k \in 1..(n - 1) : hs[k].ok
        /\ conn = "connected" => n = Len(ExpectedSteps) /\ \A k \in 1..n : hs[k].ok
        /\ conn = "hsfail" =>
             /\ n >= 1
             /\ ~hs[n].ok
             /\ ret.op = "Connect" =>
                  /\ Len(ret.err) >= 2
                  /\ ret.err[2] = StepError(hs[n].op)
        /\ conn \in {"new", "dialfail"} => n = 0

C10_Witness ==
    /\ conn = "hsfail"
    /\ Len(HandshakeWrites) = 4
    /\ HandshakeWrites[4].op = "Auth"
    /\ ret.op = "Connect"

(***************************************************************************)
(* Identify.                                                               *)
(***************************************************************************)
\* the writes the caller's last call made, as the step into the primed state
\* shows them
NewWrites == SubSeq(sent', Len(sent) + 1, Len(sent'))

\* the first line Identify is to write: the nick, with one "-<integer>" after
\* it when random suffixes are on
NickLineTexts ==
    IF cfg.RandomNumbers
    THEN {<<"N","I","C","K"," ",":">> \o cfg.Nick \o <<"-">> \o Itoa(n) : n \in RandInts}
    ELSE {<<"N","I","C","K"," ",":">> \o cfg.Nick}
UserLineText ==
    <<"U","S","E","R"," ">> \o cfg.Username \o <<" ","x"," ","x"," ",":">> \o cfg.Realname

\* C11: Identify writes nothing and returns nil exactly when one of nick,
\* username, realname is empty; otherwise its writes are, in order,
\* "NICK :<nick>" (with one "-<integer>" suffix under random suffixes),
\* "USER <username> x x :<realname>" and "NICK", ending at the first failed
\* write, and it returns an error exactly when a write failed.
C11_IdentifyContract ==
    [][(ret'.seq # ret.seq /\ ret'.op = "ID") =>
         LET new == NewWrites
             n == Len(new)
             blank == cfg.Nick = Nil \/ cfg.Username = Nil \/ cfg.Realname = Nil
         IN  /\ blank <=> (n = 0 /\ ret'.err = Nil)
             /\ n <= 3
             /\ n >= 1 => new[1].text \in NickLineTexts
             /\ n >= 2 => new[2].text = UserLineText
             /\ n >= 3 => new[3].text = <<"N","I","C","K">>
             /\ \A k \in 1..(n - 1) : new[k].ok
             /\ ~blank => (n = 3 \/ ~new[n].ok)
             /\ ~blank => (ret'.err # Nil <=> ~new[n].ok)]_vars

(***************************************************************************)
(* The nick inspection.                                                    *)
(***************************************************************************)
\* the whitespace-separated tokens of a line
Whitespace == {SP, TAB}
TokenStarts(l) ==
    {k \in 1..Len(l) : l[k] \notin Whitespace /\ (k = 1 \/ l[k - 1] \in Whitespace)}
TokenEnd(l, k) ==
    CHOOSE j \in k..Len(l) :
        /\ \A m \in k..j : l[m] \notin Whitespace
        /\ (j = Len(l) \/ l[j + 1] \in Whitespace)
NthStart(l, n) ==
    CHOOSE k \in TokenStarts(l) : Cardinality({j \in TokenStarts(l) : j < k}) = n - 1
Token(l, n) == SubSeq(l, NthStart(l, n), TokenEnd(l, NthStart(l, n)))
AllNumeric(t) == \A k \in 1..Len(t) : IsNumber(t[k])

\* C12 as stated: a line of exactly 4 whitespace-separated tokens whose
\* second token is 3 numeric characters sets the observed nick to the third
\* token, and every other line leaves it unchanged.
C12_ExactlyFourTokens ==
    [][(rpc = "nick" /\ rpc' = "deliver") =>
         snick' = IF /\ Cardinality(TokenStarts(line)) = 4
                     /\ Len(Token(line, 2)) = 3
                     /\ AllNumeric(Token(line, 2))
                  THEN Token(line, 3)
                  ELSE snick]_vars

\* the positions of the spaces of a line
Spaces(l) == {k \in 1..Len(l) : l[k] = SP}
NthSpace(l, n) ==
    CHOOSE k \in Spaces(l) : Cardinality({j \in Spaces(l) : j < k}) = n - 1

\* C12 (amended): a line with at least three spaces, whose text between the
\* first and the second space is 3 characters, a number character followed
\* by two decimal digits, sets the observed nick to the text between the
\* second and the third space; every other line leaves it unchanged.
C12_NickFromThreeSpaces ==
    [][(rpc = "nick" /\ rpc' = "deliver") =>
         snick' = IF Cardinality(Spaces(line)) >= 3
                  THEN LET p1 == NthSpace(line, 1)
                           p2 == NthSpace(line, 2)
                           p3 == NthSpace(line, 3)
                       IN  IF /\ p2 = p1 + 4
                              /\ IsNumber(line[p1 + 1])
                              /\ IsDigit(line[p1 + 2])
                              /\ IsDigit(line[p1 + 3])
                           THEN SubSeq(line, p2 + 1, p3 - 1)
                           ELSE snick
                  ELSE snick]_vars

\* the nick was taken from a line of more than four tokens
C12_Witness ==
    /\ rpc = "deliver"
    /\ Cardinality(TokenStarts(line)) = 5
    /\ snick = <<"j","b">>
    /\ snick = Token(line, 3)

(***************************************************************************)
(* Privmsg, Join, PrivmsgSize.                                             *)
(***************************************************************************)
\* the target a call with the explicit target tg is to use
ResolvedTarget(tg) ==
    IF tg # Nil THEN tg
    ELSE IF cfg.Default # Nil THEN cfg.Default
    ELSE cfg.Channel

\* C13: Privmsg uses the explicit target, else the default target, else the
\* default channel; with none it writes nothing and returns nil; otherwise
\* it makes one write, of "PRIVMSG <target> :<message>", and returns what
\* the write returned.
C13_PrivmsgContract ==
    [][(ret'.seq # ret.seq /\ ret'.op = "Privmsg") =>
         LET t == ResolvedTarget(ret'.arg[2])
             new == NewWrites
         IN  IF t = Nil
             THEN new = <<>> /\ ret'.err = Nil
             ELSE /\ Len(new) = 1
                  /\ new[1].text = <<"P","R","I","V","M","S","G"," ">> \o t
                                     \o <<" ",":">> \o ret'.arg[1]
                  /\ ret'.err = IF new[1].ok THEN Nil ELSE ErrWrite]_vars

\* C14: Join with a channel writes "JOIN <channel> <password>" with the
\* password given; with an empty channel it uses the default channel and the
\* default password; with no channel at all it writes nothing and returns
\* nil; an empty password leaves the line ending in a space.
C14_JoinContract ==
    [][(ret'.seq # ret.seq /\ ret'.op = "Join") =>
         LET given == ret'.arg[1] # Nil
             ch == IF given THEN ret'.arg[1] ELSE cfg.Channel
             pw == IF given THEN ret'.arg[2] ELSE cfg.Chanpass
             new == NewWrites
         IN  IF ch = Nil
             THEN new = <<>> /\ ret'.err = Nil
             ELSE /\ Len(new) = 1
                  /\ new[1].text = <<"J","O","I","N"," ">> \o ch \o <<" ">> \o pw
                  /\ pw = Nil => new[1].text[Len(new[1].text)] = " "
                  /\ ret'.err = Nil <=> new[1].ok]_vars

\* the bytes of a text: one for each rune, and those beyond the first of a
\* rune that takes more
Bytes(t) ==
    Len(t) + Cardinality({k \in 1..Len(t) : t[k] \in TwoByteRunes})
           + 2 * Cardinality({k \in 1..Len(t) : t[k] \in ThreeByteRunes})

\* C15: PrivmsgSize returns the maximum line length less the bytes of
\* "PRIVMSG <target> :" for the target resolved as Privmsg resolves it, and
\* -1 when none resolves; it writes nothing and changes no state.
C15_PrivmsgSize ==
    [][(ret'.seq # ret.seq /\ ret'.op = "PrivmsgSize") =>
         LET t == ResolvedTarget(ret'.arg[1])
         IN  /\ ret'.err = << IF t = Nil THEN -1
                              ELSE cfg.Msglen - (Len(<<"P","R","I","V","M","S","G"," ">>)
                                                 + Bytes(t) + Len(<<" ",":">>)) >>
             /\ UNCHANGED <<cfg, wr, conn, S, werr, netVars, sent, readerVars, chanVars,
                            consumerVars, panic>>]_vars

\* the size for a target whose bytes are more than its characters
C15_Witness ==
    /\ ret.op = "PrivmsgSize"
    /\ ret.arg = << <<"U+2167","b">> >>
    /\ ret.err = <<cfg.Msglen - 14>>

(***************************************************************************)
(* The channels belong to the reader.                                      *)
(***************************************************************************)
CallerOps == {"ID", "Auth", "Join", "Handshake", "PrintfLine", "Privmsg",
              "PrivmsgSize", "Quit"}

\* C16: a step of a caller operation, failed or not, leaves the error channel,
\* the output channel and what was delivered as they were; a value is placed
\* on the error channel only by the reader at one of its error sends, and the
\* output channel is closed only by the reader at one of its closes.
C16_CallerLeavesChannels ==
    [][/\ (ret'.seq # ret.seq /\ ret'.op \in CallerOps) =>
             UNCHANGED <<cClosed, e, ePlaced, eAttempts, received, gotErr, readerVars>>
       /\ ePlaced' # ePlaced =>
             (rpc \in {"rd_esend", "pg_esend"} /\ ret' = ret /\ e' = Append(e, rerr))
       /\ cClosed' # cClosed =>
             (rpc \in {"rd_close", "pg_close"} /\ ret' = ret)]_vars

\* a caller's send failed while the reader runs, and the channels are untouched
C16_Witness ==
    /\ ret.op \in CallerOps
    /\ ret.err # Nil
    /\ rpc = "read"
    /\ ePlaced = 0
    /\ ~cClosed

(***************************************************************************)
(* The end of the reader, and its pace.                                    *)
(***************************************************************************)
\* C17: once the error is on the error channel and the output channel is
\* closed the reader has ended: it reads nothing, writes nothing, leaves the
\* observed nick alone and makes no channel operation.
C17_ReaderEndsAfterError ==
    [][(cClosed /\ ePlaced >= 1) =>
         /\ UNCHANGED <<rpc, rdLines, snick, ePlaced, eAttempts, cClosed>>
         /\ SelectSeq(sent', LAMBDA r : r.by = "reader") = ReaderWrites
         /\ panic' = panic]_vars

\* C18: the reader is at its read only when every line read was received; it
\* has read at most one line more than the consumer received and attempted
\* no more PONGs than there are ping lines among those; until the consumer
\* receives the first line the reader has read at most that one line and
\* answered at most that one line.
C18_OneUndelivered ==
    /\ rpc = "read" => Len(received) = Len(rdLines)
    /\ rpc \in {"ping", "nick", "deliver"} /\ ~cClosed => Len(rdLines) = Len(received) + 1
    /\ Len(rdLines) <= Len(received) + 1
    /\ Len(ReaderWrites) <= Len(PingLines(rdLines))
    /\ received = <<>> => (Len(rdLines) <= 1 /\ Len(ReaderWrites) <= 1)

\* the first line waits for the consumer while a ping is in the stream
C18_Witness ==
    /\ rpc = "deliver"
    /\ ~cClosed
    /\ received = <<>>
    /\ inbox # <<>>
    /\ IsPing(cfg, Head(inbox))

(***************************************************************************)
(* Formatting.                                                             *)
(***************************************************************************)
\* the operands of a raw line
RawOperands(f) == (CHOOSE a \in RawArgs : a[1] = f)[2]

\* the line of a call, its operands formatted once
LineFormattedOnce(op, arg) ==
    CASE op = "PrintfLine" -> Sprintf(arg[1], RawOperands(arg[1]))
      [] op = "Privmsg" -> Sprintf(fmtPrivmsg, <<ResolvedTarget(arg[2]), arg[1]>>)
      [] op = "Quit" -> Sprintf(fmtQuit, <<QuitMsg(cfg, arg[1])>>)

\* C19: the line a send writes is the line its operands give when formatted
\* once, and for Privmsg it ends with the message as it was given.
C19_FormattedOnce ==
    [][(/\ ret'.seq # ret.seq
        /\ ret'.op \in {"PrintfLine", "Privmsg", "Quit"}
        /\ Len(sent') = Len(sent) + 1) =>
         LET text == sent'[Len(sent')].text
         IN  /\ text = LineFormattedOnce(ret'.op, ret'.arg)
             /\ ret'.op = "Privmsg" =>
                  SubSeq(text, Len(text) - Len(ret'.arg[1]) + 1, Len(text)) = ret'.arg[1]]_vars

(***************************************************************************)
(* The shared writer.                                                      *)
(***************************************************************************)
\* the lines on the connection, each with its terminator, and what follows
\* the last terminator
WireEnds == {k \in 1..Len(wr.wire) : wr.wire[k] = LF}
NthWireEnd(n) ==
    IF n = 0 THEN 0
    ELSE CHOOSE k \in WireEnds : Cardinality({j \in WireEnds : j < k}) = n - 1
WireLines ==
    [n \in 1..Cardinality(WireEnds) |->
       SubSeq(wr.wire, NthWireEnd(n - 1) + 1, NthWireEnd(n))]
WireRest == SubSeq(wr.wire, NthWireEnd(Cardinality(WireEnds)) + 1, Len(wr.wire))

\* how often a line is in a sequence of lines
Times(l, ls) == Cardinality({k \in 1..Len(ls) : ls[k] = l})
SentLines == [k \in 1..Len(sent) |-> sent[k].text \o CRLF]

\* no send is under way
WriterAtRest ==
    /\ wr.cpos = "idle"
    /\ rpc \notin {"pg_term", "pg_flush", "pg_reset"}

\* C20: every line on the connection is the whole text and terminator of one
\* send, no send's line is there more often than it was sent, and once no
\* send is under way every send's line is there and nothing else.
C20_LinesWhole ==
    /\ \A n \in 1..Len(WireLines) :
         /\ Times(WireLines[n], SentLines) >= 1
         /\ Times(WireLines[n], WireLines) <= Times(WireLines[n], SentLines)
    /\ WriterAtRest =>
         /\ WireRest = <<>>
         /\ \A k \in 1..Len(SentLines) :
              Times(SentLines[k], WireLines) = Times(SentLines[k], SentLines)

====
